---------------------------- MODULE Spec2Model ----------------------------
(***************************************************************************)
(* State machine of the DataLens spreadsheet viewer/editor (App component, *)
(* src/unnamed/part_000 lines 49-1026): the in-memory dataset, the         *)
(* memoised view (filteredRows), the column display state, the selected    *)
(* record with its pending-edit buffer, and the asynchronous imports.      *)
(*                                                                         *)
(* Strings are sequences of UTF-16 code units, so that toLowerCase,        *)
(* includes, trim and the < comparison are computed as JavaScript does.    *)
(* Indices (selectedIndex, indexOf) are 0-based as in the source; a        *)
(* nullable value is <<>> (null) or <<v>>.                                 *)
(***************************************************************************)
EXTENDS Integers, Sequences, FiniteSets, TLC

(***************************************************************************)
(* Strings                                                                 *)
(***************************************************************************)
sEmpty == <<>>
sa == <<97>>
sb == <<98>>
sx == <<120>>
s9 == <<57>>
sNull == <<110, 117, 108, 108>>
sUndefined == <<117, 110, 100, 101, 102, 105, 110, 101, 100>>
sTrue == <<116, 114, 117, 101>>
sFalse == <<102, 97, 108, 115, 101>>

\* column names
cA == <<65>>
cB == <<66>>
cC == <<67>>

\* String.prototype.toLowerCase on the code units used here (A-Z -> a-z)
ToLowerCase(s) ==
    [i \in 1..Len(s) |-> IF s[i] >= 65 /\ s[i] <= 90 THEN s[i] + 32 ELSE s[i]]

\* String.prototype.includes
Includes(s, q) ==
    \E i \in 0..(Len(s) - Len(q)) : SubSeq(s, i + 1, i + Len(q)) = q

\* the < operator on two strings: lexicographic on code units
StrLess(a, b) ==
    \E k \in 1..Len(b) :
        /\ \A j \in 1..(k - 1) : j <= Len(a) /\ a[j] = b[j]
        /\ (k > Len(a) \/ a[k] < b[k])

\* decimal digits of a non-negative integer, as String(n) writes them
RECURSIVE Digits(_)
Digits(n) ==
    IF n < 10 THEN <<48 + n>> ELSE Digits(n \div 10) \o <<48 + (n % 10)>>

(***************************************************************************)
(* Cell values (DataRow: string | number | boolean | null; an absent key   *)
(* reads as undefined)                                                     *)
(***************************************************************************)
Str(s) == [t |-> "string", s |-> s, n |-> 0]
Num(n) == [t |-> "number", s |-> <<>>, n |-> n]
Bool(b) == [t |-> "boolean", s |-> <<>>, n |-> IF b THEN 1 ELSE 0]
Null == [t |-> "null", s |-> <<>>, n |-> 0]
Undefined == [t |-> "undefined", s |-> <<>>, n |-> 0]

\* row[col]
Get(row, col) == IF col \in DOMAIN row.cells THEN row.cells[col] ELSE Undefined

\* String(val)
ToStr(v) ==
    CASE v.t = "string" -> v.s
      [] v.t = "number" -> Digits(v.n)
      [] v.t = "boolean" -> (IF v.n = 1 THEN sTrue ELSE sFalse)
      [] v.t = "null" -> sNull
      [] OTHER -> sUndefined

\* String(val ?? '')
ToStrOrEmpty(v) == IF v.t \in {"null", "undefined"} THEN sEmpty ELSE ToStr(v)

(***************************************************************************)
(* Sequences                                                               *)
(***************************************************************************)
Range(s) == {s[i] : i \in 1..Len(s)}

\* a lookup that compares row contents instead of references
IndexOfByValue(rows, target) ==
    IF target = <<>> \/ ~(\E i \in 1..Len(rows) : rows[i].cells = target[1].cells)
    THEN -1
    ELSE (CHOOSE i \in 1..Len(rows) :
              /\ rows[i].cells = target[1].cells
              /\ \A j \in 1..(i - 1) : rows[j].cells # target[1].cells) - 1

\* Array.prototype.indexOf on an array of row objects: strict equality of
\* object references; -1 when absent (target <<>> is undefined)
IndexOf(rows, target) ==
    IF target = <<>> \/ ~(\E i \in 1..Len(rows) : rows[i].oid = target[1].oid)
    THEN -1
    ELSE (CHOOSE i \in 1..Len(rows) :
              /\ rows[i].oid = target[1].oid
              /\ \A j \in 1..(i - 1) : rows[j].oid # target[1].oid) - 1

\* arr[i] for a 0-based index: <<>> (undefined) out of range
At(arr, i) == IF i >= 0 /\ i < Len(arr) THEN <<arr[i + 1]>> ELSE <<>>

(***************************************************************************)
(* View pipeline: search -> column filters -> sort                         *)
(***************************************************************************)
\* search predicate of one row: some own value contains the lowered query
MatchesSearch(row, query) ==
    \E col \in DOMAIN row.cells :
        Includes(ToLowerCase(ToStr(row.cells[col])), ToLowerCase(query))

\* a column filter that drops the rows whose text is in the accepted set
MatchesFiltersExcluding(row, filters) ==
    \A col \in DOMAIN filters :
        filters[col] # {} => ToStrOrEmpty(Get(row, col)) \notin filters[col]

\* column-filter predicate of one row: every non-empty accepted set holds
\* the row's text in that column
MatchesFilters(row, filters) ==
    \A col \in DOMAIN filters :
        filters[col] # {} => ToStrOrEmpty(Get(row, col)) \in filters[col]

\* the sort comparator: negative, zero or positive
Compare(a, b, key, direction) ==
    LET aVal == Get(a, key)
        bVal == Get(b, key)
        aStr == ToLowerCase(ToStrOrEmpty(aVal))
        bStr == ToLowerCase(ToStrOrEmpty(bVal))
    IN  IF aVal = bVal THEN 0
        ELSE IF aVal.t = "number" /\ bVal.t = "number"
             THEN (IF direction = "asc" THEN aVal.n - bVal.n ELSE bVal.n - aVal.n)
        ELSE IF StrLess(aStr, bStr) THEN (IF direction = "asc" THEN -1 ELSE 1)
        ELSE IF StrLess(bStr, aStr) THEN (IF direction = "asc" THEN 1 ELSE -1)
        ELSE 0

\* Array.prototype.sort as the V8 engine runs it on an array shorter than 64
\* elements (one TimSort run: CountAndMakeRun, then BinaryInsertionSort).
\* With a consistent comparator every stable sort returns this result; with
\* an inconsistent one (a column mixing numbers and text) the order is
\* implementation-defined and this is the order V8 produces.
Reverse(arr) == [i \in 1..Len(arr) |-> arr[Len(arr) + 1 - i]]

\* CountAndMakeRun's loop: the length of the initial run, strictly
\* descending or non-descending; idx is the next position to examine
RECURSIVE RunLength(_, _, _, _, _)
RunLength(arr, idx, isDescending, key, direction) ==
    IF idx > Len(arr) THEN Len(arr)
    ELSE LET order == Compare(arr[idx], arr[idx - 1], key, direction)
         IN  IF (isDescending /\ order >= 0) \/ (~isDescending /\ order < 0)
             THEN idx - 1
             ELSE RunLength(arr, idx + 1, isDescending, key, direction)

\* the array with its initial run made ascending, and the run's length
CountAndMakeRun(arr, key, direction) ==
    LET isDescending == Compare(arr[2], arr[1], key, direction) < 0
        run == RunLength(arr, 3, isDescending, key, direction)
    IN  [arr |-> IF isDescending
                 THEN Reverse(SubSeq(arr, 1, run)) \o SubSeq(arr, run + 1, Len(arr))
                 ELSE arr,
         run |-> run]

\* the insertion point of pivot in arr[left..right-1] (0-based, right
\* exclusive): after every element that does not compare greater
RECURSIVE BinarySearch(_, _, _, _, _, _)
BinarySearch(arr, pivot, left, right, key, direction) ==
    IF left >= right THEN left
    ELSE LET mid == left + ((right - left) \div 2)
         IN  IF Compare(pivot, arr[mid + 1], key, direction) < 0
             THEN BinarySearch(arr, pivot, left, mid, key, direction)
             ELSE BinarySearch(arr, pivot, mid + 1, right, key, direction)

\* arr[0..start-1] is sorted; insert arr[start], arr[start+1], ...
RECURSIVE BinaryInsertionSort(_, _, _, _)
BinaryInsertionSort(arr, start, key, direction) ==
    IF start >= Len(arr) THEN arr
    ELSE LET pivot == arr[start + 1]
             left == BinarySearch(arr, pivot, 0, start, key, direction)
         IN  BinaryInsertionSort(
                 SubSeq(arr, 1, left) \o <<pivot>> \o SubSeq(arr, left + 1, start)
                     \o SubSeq(arr, start + 2, Len(arr)),
                 start + 1, key, direction)

\* [...rows].sort(comparator)
SortRows(rows, key, direction) ==
    IF Len(rows) < 2 THEN rows
    ELSE LET r == CountAndMakeRun(rows, key, direction)
         IN  BinaryInsertionSort(r.arr, r.run, key, direction)

\* the body of the filteredRows memo
Pipeline(d, query, filters, sort) ==
    IF d = <<>> THEN <<>>
    ELSE LET searched == IF query # sEmpty
                         THEN SelectSeq(d[1].rows, LAMBDA r : MatchesSearch(r, query))
                         ELSE d[1].rows
             filtered == SelectSeq(searched, LAMBDA r : MatchesFilters(r, filters))
         IN  IF sort.key # <<>> /\ sort.key[1] # sEmpty
             THEN SortRows(filtered, sort.key[1], sort.direction)
             ELSE filtered

(***************************************************************************)
(* Bounds and inputs                                                       *)
(***************************************************************************)
\* most imports that may be in flight at once
MaxInflight == 2
\* most events (handler runs and import completions) of one session
MaxSteps == 6

\* what the parsers deliver (Papa.parse / XLSX.utils.sheet_to_json are
\* external collaborators): headers, one cell mapping per row, the name,
\* and for a remote sheet its file id
FileTwins ==
    [kind |-> "csv", fileName |-> "twins.csv", fileId |-> <<>>,
     headers |-> <<cA, cB>>,
     cells |-> << (cA :> Str(sa) @@ cB :> Str(sb)),
                  (cA :> Str(sa) @@ cB :> Str(sb)),
                  (cA :> Str(sb) @@ cB :> Str(sa)) >>]

SheetOne ==
    [kind |-> "sheet", fileName |-> "one", fileId |-> <<"id1">>,
     headers |-> <<cA>>,
     cells |-> << (cA :> Str(sb)) >>]

Sources == {FileTwins, SheetOne}

\* a workbook whose column A mixes text and numbers and whose column B
\* holds a, A and an error cell (XLSX.utils.sheet_to_json delivers numbers
\* for numeric cells and null for a #NULL! cell)
FileMixed ==
    [kind |-> "xlsx", fileName |-> "mixed.xlsx", fileId |-> <<>>,
     headers |-> <<cA, cB>>,
     cells |-> << (cA :> Str(s9) @@ cB :> Str(sa)),
                  (cA :> Num(10) @@ cB :> Str(cA)),
                  (cA :> Num(9) @@ cB :> Null) >>]

\* a workbook whose column A holds the text 9 followed by the numbers 9 and
\* 10, and whose column B holds the texts 10, 2 and 10
FileDigits ==
    [kind |-> "xlsx", fileName |-> "digits.xlsx", fileId |-> <<>>,
     headers |-> <<cA, cB>>,
     cells |-> << (cA :> Str(s9) @@ cB :> Str(<<49, 48>>)),
                  (cA :> Num(9) @@ cB :> Str(<<50>>)),
                  (cA :> Num(10) @@ cB :> Str(<<49, 48>>)) >>]

\* a CSV file whose header line is ",A": Papa.parse names the first column
\* by the empty string
FileBlank ==
    [kind |-> "csv", fileName |-> "blank.csv", fileId |-> <<>>,
     headers |-> <<sEmpty, cA>>,
     cells |-> << (sEmpty :> Str(sb) @@ cA :> Str(<<49>>)),
                  (sEmpty :> Str(sa) @@ cA :> Str(<<50>>)) >>]

\* what the user types into the Add Column dialog in the column-handler
\* specification: C, an existing name, a name differing from an existing
\* one in letter case only, the text of a foreign drag, names padded with
\* spaces, and a blank
TypedColumnNames == {cC, cA, sa, sx, <<32, 67, 32>>, <<32, 65>>, <<32>>}
AllColumns == {cA, cB, cC, sa, sx}

\* the datasets and search texts of the view-handler specification
ViewSources == {FileTwins, FileMixed, FileDigits, FileBlank}
ViewColumns == {cA, cB, cC, sEmpty}
ViewQueries == {sEmpty, cA, sNull}

\* sources of the import/export specification: an empty CSV file, a CSV file
\* holding a header line only, a workbook whose first sheet has no rows, and
\* a remote read answered with an error response, whose JSON text Papa.parse
\* reads as a CSV with the header "{" (abridged to one row)
FileEmpty ==
    [kind |-> "csv", fileName |-> "empty.csv", fileId |-> <<>>,
     headers |-> <<>>, cells |-> <<>>]

FileHeaderOnly ==
    [kind |-> "csv", fileName |-> "header.csv", fileId |-> <<>>,
     headers |-> <<cA, cB>>, cells |-> <<>>]

BookEmpty ==
    [kind |-> "xlsx", fileName |-> "empty.xlsx", fileId |-> <<>>,
     headers |-> <<>>, cells |-> <<>>]

SheetDenied ==
    [kind |-> "sheet", fileName |-> "denied", fileId |-> <<"id2">>,
     headers |-> << <<123>> >>,
     cells |-> << (<<123>> :> Str(<<125>>)) >>]

ExchangeSources ==
    {FileTwins, FileEmpty, FileHeaderOnly, BookEmpty, SheetOne, SheetDenied}

\* what the user types
Queries == {sEmpty, sb}
EditValues == {sx}
NewColumnNames == {cC}

(***************************************************************************)
(* State                                                                   *)
(***************************************************************************)
VARIABLES
    data,            \* <<>> or <<[headers, rows, fileName, fileId]>>
    searchQuery,     \* string
    selectedIndex,   \* <<>> or <<k>>, k a 0-based index into filteredRows
    isPanelOpen,     \* BOOLEAN
    sortConfig,      \* [key: <<>> or <<column>>, direction: "asc" | "desc"]
    visibleColumns,  \* set of column names
    columnOrder,     \* sequence of column names
    columnFilters,   \* column name -> set of accepted strings
    pendingChanges,  \* column name -> staged value
    filteredRows,    \* the value held by the useMemo: a sequence of row objects
    inflight,        \* imports started and not yet completed
    stagedFor,       \* history: <<>> or <<p>>, the canonical position of the
                     \* record that was open when the buffer was first written
                     \* (-1: a row of a dataset that has since been replaced)
    lastOp,          \* history: the handler that ran last
    steps,           \* history: the number of events so far
    kept,            \* the elements AnimatePresence keeps mounted while
                     \* they exit, each with what its last render closed
                     \* over: panel (backdrop, X, fields, Previous/Next),
                     \* editing (the field whose textarea that panel shows),
                     \* buttons (Discard and Save), menu (column menu),
                     \* filter (column -> its filter dropdown), modal (Add
                     \* Column dialog)
    syncing          \* <<>> or <<request>>: the syncToDrive call under way

vars == <<data, searchQuery, selectedIndex, isPanelOpen, sortConfig,
          visibleColumns, columnOrder, columnFilters, pendingChanges,
          filteredRows, inflight, stagedFor, lastOp, steps, kept, syncing>>

EmptyMap == <<>>
NoKept == [panel |-> <<>>, editing |-> <<>>, buttons |-> <<>>,
           menu |-> <<>>, filter |-> EmptyMap, modal |-> <<>>]

\* new row objects, one per parsed row.  An object reference is opaque in
\* JavaScript: the model names the live row objects by their canonical
\* position, which every setData re-establishes.
NewRows(cells) == [i \in 1..Len(cells) |-> [oid |-> i, cells |-> cells[i]]]

\* { ...row, ...patch }
Spread(cells, patch) ==
    [c \in (DOMAIN cells) \cup (DOMAIN patch) |->
        IF c \in DOMAIN patch THEN patch[c] ELSE cells[c]]

\* columnOrder.filter(h => visibleColumns.has(h)): the rendered columns
RenderedColumns == SelectSeq(columnOrder, LAMBDA h : h \in visibleColumns)

\* The detail panel reads filteredRows[selectedIndex][header] for the title
\* and for every rendered column without a staged value; on an undefined
\* row that read throws and React unmounts the component.
RenderThrows ==
    /\ data # <<>>
    /\ isPanelOpen
    /\ selectedIndex # <<>>
    /\ At(filteredRows, selectedIndex[1]) = <<>>
    /\ \/ columnOrder = <<>>
       \/ columnOrder[1] \notin DOMAIN pendingChanges
       \/ \E h \in Range(RenderedColumns) : h \notin DOMAIN pendingChanges

Mounted == ~RenderThrows
MainScreen == Mounted /\ data # <<>>
PanelShown == MainScreen /\ isPanelOpen /\ selectedIndex # <<>>

\* {Object.keys(pendingChanges).length > 0 && ...} inside the panel
SaveRendered == PanelShown /\ DOMAIN pendingChanges # {}

\* what the handlers created by the current render close over
Closure ==
    [data |-> data, selectedIndex |-> selectedIndex,
     filteredRows |-> filteredRows, pendingChanges |-> pendingChanges]

\* editingField in the last render of a panel that closes: the field whose
\* textarea is open at that moment, or none (l.68, 897, 911)
EditingChoices == {<<>>} \cup {<<h>> : h \in Range(RenderedColumns)}

\* a map without one key
Without(map, key) == [k \in (DOMAIN map) \ {key} |-> map[k]]

\* The render that follows an event.  When it no longer renders the panel
\* (l.821), or no longer renders Discard and Save (l.852), AnimatePresence
\* keeps the elements of the previous render mounted, with that render's
\* handlers, while they animate out; an element that is rendered again is
\* no longer exiting; a filter dropdown lives in its column's th (l.692,
\* 735) and goes with it; when the main screen itself goes away (l.479, or
\* a render that throws) nothing is kept.  The column menu, the filter
\* dropdowns and the Add Column dialog are opened and closed by state that
\* no handler reads (isColumnMenuOpen, activeFilterColumn, isAddingColumn):
\* what is exiting of them after the event is given by the event.
RerenderWith(menu, filter, modal) ==
    \E editing \in (IF PanelShown /\ ~PanelShown' /\ MainScreen'
                    THEN EditingChoices ELSE {<<>>}) :
        kept' = IF ~MainScreen' THEN NoKept
                ELSE [panel   |-> IF PanelShown' THEN <<>>
                                  ELSE IF PanelShown THEN << Closure >>
                                  ELSE kept.panel,
                      editing |-> IF PanelShown' THEN <<>>
                                  ELSE IF PanelShown THEN editing
                                  ELSE kept.editing,
                      buttons |-> IF SaveRendered' THEN <<>>
                                  ELSE IF SaveRendered THEN << Closure >>
                                  ELSE kept.buttons,
                      menu    |-> menu,
                      filter  |-> [h \in {x \in DOMAIN filter :
                                            x \in Range(RenderedColumns')}
                                     |-> filter[h]],
                      modal   |-> modal]

\* an event that neither opens nor closes the menu, a dropdown or the dialog
Rerender == RerenderWith(kept.menu, kept.filter, kept.modal)

Init ==
    /\ data = <<>>
    /\ searchQuery = sEmpty
    /\ selectedIndex = <<>>
    /\ isPanelOpen = FALSE
    /\ sortConfig = [key |-> <<>>, direction |-> "asc"]
    /\ visibleColumns = {}
    /\ columnOrder = <<>>
    /\ columnFilters = EmptyMap
    /\ pendingChanges = EmptyMap
    /\ filteredRows = <<>>
    /\ inflight = {}
    /\ stagedFor = <<>>
    /\ lastOp = "init"
    /\ steps = 0
    /\ kept = NoKept
    /\ syncing = <<>>

(***************************************************************************)
(* Imports: handleFileUpload / fetchGoogleSheet start an asynchronous      *)
(* read; the completion callback installs the dataset.                     *)
(***************************************************************************)
\* setData({headers, rows, fileName[, fileId]}); setVisibleColumns(new
\* Set(headers)); setColumnOrder(headers).  Nothing else is reset.
LoadDataset(src) ==
    /\ data' = << [headers |-> src.headers, rows |-> NewRows(src.cells),
                   fileName |-> src.fileName, fileId |-> src.fileId] >>
    /\ visibleColumns' = Range(src.headers)
    /\ columnOrder' = src.headers
    /\ filteredRows' = Pipeline(data', searchQuery, columnFilters, sortConfig)
    /\ stagedFor' = IF stagedFor = <<>> THEN <<>> ELSE <<-1>>
    /\ UNCHANGED <<searchQuery, selectedIndex, isPanelOpen, sortConfig,
                   columnFilters, pendingChanges>>

\* the file input and the drop zone exist on the import screen only
HandleFileUpload(file) ==
    /\ Mounted /\ data = <<>>
    /\ file.kind \in {"csv", "xlsx"}
    /\ file \notin inflight /\ Cardinality(inflight) < MaxInflight
    /\ inflight' = inflight \cup {file}
    /\ lastOp' = "handleFileUpload"
    /\ UNCHANGED <<data, searchQuery, selectedIndex, isPanelOpen, sortConfig,
                   visibleColumns, columnOrder, columnFilters, pendingChanges,
                   filteredRows, stagedFor>>

\* Papa.parse complete / reader.onload
FileUploadComplete(file) ==
    /\ Mounted
    /\ file \in inflight /\ file.kind \in {"csv", "xlsx"}
    /\ inflight' = inflight \ {file}
    /\ lastOp' = "importComplete"
    /\ IF file.kind = "xlsx" /\ Len(file.cells) = 0
       THEN UNCHANGED <<data, searchQuery, selectedIndex, isPanelOpen,
                        sortConfig, visibleColumns, columnOrder, columnFilters,
                        pendingChanges, filteredRows, stagedFor>>
       ELSE LoadDataset(file)

\* the picker callback runs whenever the OAuth popup reports success, on
\* either screen
FetchGoogleSheet(sheet) ==
    /\ Mounted
    /\ sheet.kind = "sheet"
    /\ sheet \notin inflight /\ Cardinality(inflight) < MaxInflight
    /\ inflight' = inflight \cup {sheet}
    /\ lastOp' = "fetchGoogleSheet"
    /\ UNCHANGED <<data, searchQuery, selectedIndex, isPanelOpen, sortConfig,
                   visibleColumns, columnOrder, columnFilters, pendingChanges,
                   filteredRows, stagedFor>>

FetchGoogleSheetComplete(sheet) ==
    /\ Mounted
    /\ sheet \in inflight /\ sheet.kind = "sheet"
    /\ inflight' = inflight \ {sheet}
    /\ lastOp' = "importComplete"
    /\ LoadDataset(sheet)

resetApp ==
    /\ MainScreen
    /\ data' = <<>>
    /\ searchQuery' = sEmpty
    /\ selectedIndex' = <<>>
    /\ isPanelOpen' = FALSE
    /\ pendingChanges' = EmptyMap
    /\ filteredRows' = Pipeline(data', searchQuery', columnFilters, sortConfig)
    /\ stagedFor' = <<>>
    /\ lastOp' = "resetApp"
    /\ UNCHANGED <<sortConfig, visibleColumns, columnOrder, columnFilters, inflight>>

(***************************************************************************)
(* View inputs                                                             *)
(***************************************************************************)
\* the search box's onChange
SetSearchQuery(q) ==
    /\ MainScreen
    /\ q # searchQuery
    /\ searchQuery' = q
    /\ filteredRows' = Pipeline(data, searchQuery', columnFilters, sortConfig)
    /\ lastOp' = "setSearchQuery"
    /\ UNCHANGED <<data, selectedIndex, isPanelOpen, sortConfig, visibleColumns,
                   columnOrder, columnFilters, pendingChanges, inflight, stagedFor>>

\* a three-state header click: ascending, descending, unsorted
NextSortConfigCycle(prev, key) ==
    IF prev.key = <<key>> /\ prev.direction = "desc"
    THEN [key |-> <<>>, direction |-> "asc"]
    ELSE [key |-> <<key>>,
          direction |-> IF prev.key = <<key>> /\ prev.direction = "asc"
                        THEN "desc" ELSE "asc"]

NextSortConfig(prev, key) ==
    [key |-> <<key>>,
     direction |-> IF prev.key = <<key>> /\ prev.direction = "asc"
                   THEN "desc" ELSE "asc"]

toggleSort(key) ==
    /\ MainScreen
    /\ key \in Range(RenderedColumns)
    /\ sortConfig' = NextSortConfig(sortConfig, key)
    /\ filteredRows' = Pipeline(data, searchQuery, columnFilters, sortConfig')
    /\ lastOp' = "toggleSort"
    /\ UNCHANGED <<data, searchQuery, selectedIndex, isPanelOpen, visibleColumns,
                   columnOrder, columnFilters, pendingChanges, inflight, stagedFor>>

\* new Set(texts) iterated by Array.from: the distinct texts in the order of
\* their first occurrence
RECURSIVE Distinct(_)
Distinct(texts) ==
    IF texts = <<>> THEN <<>>
    ELSE LET rest == Distinct(SubSeq(texts, 1, Len(texts) - 1))
             last == texts[Len(texts)]
         IN  IF last \in Range(rest) THEN rest ELSE Append(rest, last)

\* Array.prototype.sort without a comparator, on strings: ascending by
\* UTF-16 code units (a consistent order, so every sort agrees)
RECURSIVE InsertText(_, _)
InsertText(sorted, x) ==
    IF sorted = <<>> THEN <<x>>
    ELSE IF StrLess(x, sorted[Len(sorted)])
         THEN Append(InsertText(SubSeq(sorted, 1, Len(sorted) - 1), x),
                     sorted[Len(sorted)])
         ELSE Append(sorted, x)

RECURSIVE SortTexts(_)
SortTexts(texts) ==
    IF texts = <<>> THEN <<>>
    ELSE InsertText(SortTexts(SubSeq(texts, 1, Len(texts) - 1)), texts[Len(texts)])

\* an enumeration that reads the displayed rows instead of the dataset
getUniqueValuesOfView(column) ==
    IF data = <<>> THEN <<>>
    ELSE SortTexts(Distinct([i \in 1..Len(filteredRows) |->
                                 ToStrOrEmpty(Get(filteredRows[i], column))]))

getUniqueValues(column) ==
    IF data = <<>> THEN <<>>
    ELSE SortTexts(Distinct([i \in 1..Len(data[1].rows) |->
                                 ToStrOrEmpty(Get(data[1].rows[i], column))]))

\* the filter dropdown offers exactly the values of getUniqueValues(header)
UniqueValueSet(column) == Range(getUniqueValues(column))

\* the functional update without the `delete next[column]` of an emptied set
NextFiltersKeepsEmpty(prev, column, value) ==
    LET current == IF column \in DOMAIN prev THEN prev[column] ELSE {}
        toggled == IF value \in current THEN current \ {value}
                   ELSE current \cup {value}
    IN  [c \in (DOMAIN prev) \cup {column} |->
            IF c = column THEN toggled ELSE prev[c]]

\* the functional update of toggleColumnFilterValue
NextFilters(prev, column, value) ==
    LET current == IF column \in DOMAIN prev THEN prev[column] ELSE {}
        toggled == IF value \in current THEN current \ {value}
                   ELSE current \cup {value}
    IN  IF toggled = {}
        THEN [c \in (DOMAIN prev) \ {column} |-> prev[c]]
        ELSE [c \in (DOMAIN prev) \cup {column} |->
                 IF c = column THEN toggled ELSE prev[c]]

\* columnFilters is not among the memo's dependencies [data, searchQuery,
\* sortConfig]: the render after this update returns the cached filteredRows
\* a value of the open filter dropdown of a rendered column, which is
\* therefore not exiting
toggleColumnFilterValue(column, value) ==
    /\ MainScreen
    /\ column \in Range(RenderedColumns)
    /\ value \in UniqueValueSet(column)
    /\ columnFilters' = NextFilters(columnFilters, column, value)
    /\ lastOp' = "toggleColumnFilterValue"
    /\ UNCHANGED <<data, searchQuery, selectedIndex, isPanelOpen, sortConfig,
                   visibleColumns, columnOrder, pendingChanges, filteredRows,
                   inflight, stagedFor>>
    /\ RerenderWith(kept.menu, Without(kept.filter, column), kept.modal)

\* the Clear button of the open dropdown, rendered when the column has a
\* filter entry
clearColumnFilter(column) ==
    /\ MainScreen
    /\ column \in Range(RenderedColumns)
    /\ column \in DOMAIN columnFilters
    /\ columnFilters' = Without(columnFilters, column)
    /\ lastOp' = "clearColumnFilter"
    /\ UNCHANGED <<data, searchQuery, selectedIndex, isPanelOpen, sortConfig,
                   visibleColumns, columnOrder, pendingChanges, filteredRows,
                   inflight, stagedFor>>
    /\ RerenderWith(kept.menu, Without(kept.filter, column), kept.modal)

\* The filter button of the open dropdown's header or the dropdown's
\* backdrop sets activeFilterColumn to null (l.723, 742); the filter button
\* of another header sets it to that header (l.723), which closes the open
\* dropdown and opens the other in one render.  The closing dropdown keeps
\* the values getUniqueValues gave this render, and the Clear button if
\* this render shows it; the dropdown that opens is no longer exiting.
OpenedChoices(header) ==
    {<<>>} \cup {<<h>> : h \in Range(RenderedColumns) \ {header}}

closeFilterDropdown(header, opened) ==
    /\ MainScreen
    /\ header \in Range(RenderedColumns)
    /\ opened \in OpenedChoices(header)
    /\ lastOp' = "closeFilterDropdown"
    /\ UNCHANGED <<data, searchQuery, selectedIndex, isPanelOpen, sortConfig,
                   visibleColumns, columnOrder, columnFilters, pendingChanges,
                   filteredRows, inflight, stagedFor>>
    /\ LET closing == Spread(kept.filter,
                             header :> [values |-> UniqueValueSet(header),
                                        clear |-> header \in DOMAIN columnFilters])
       IN  RerenderWith(kept.menu,
                        IF opened = <<>> THEN closing ELSE Without(closing, opened[1]),
                        kept.modal)

\* a value of an exiting dropdown: the update is functional, the value is
\* one of the dropdown's last render
toggleColumnFilterValueExiting(column, value) ==
    /\ Mounted
    /\ column \in DOMAIN kept.filter
    /\ value \in kept.filter[column].values
    /\ columnFilters' = NextFilters(columnFilters, column, value)
    /\ lastOp' = "toggleColumnFilterValue (exiting dropdown)"
    /\ UNCHANGED <<data, searchQuery, selectedIndex, isPanelOpen, sortConfig,
                   visibleColumns, columnOrder, pendingChanges, filteredRows,
                   inflight, stagedFor>>

\* the Clear button of an exiting dropdown
clearColumnFilterExiting(column) ==
    /\ Mounted
    /\ column \in DOMAIN kept.filter
    /\ kept.filter[column].clear
    /\ columnFilters' = Without(columnFilters, column)
    /\ lastOp' = "clearColumnFilter (exiting dropdown)"
    /\ UNCHANGED <<data, searchQuery, selectedIndex, isPanelOpen, sortConfig,
                   visibleColumns, columnOrder, pendingChanges, filteredRows,
                   inflight, stagedFor>>

(***************************************************************************)
(* Record editor                                                           *)
(***************************************************************************)
\* a table row is rendered for every index of filteredRows
handleRowClick(index) ==
    /\ MainScreen
    /\ index \in 0..(Len(filteredRows) - 1)
    /\ selectedIndex' = <<index>>
    /\ isPanelOpen' = TRUE
    /\ pendingChanges' = EmptyMap
    /\ stagedFor' = <<>>
    /\ lastOp' = "handleRowClick"
    /\ UNCHANGED <<data, searchQuery, sortConfig, visibleColumns, columnOrder,
                   columnFilters, filteredRows, inflight>>

Max(a, b) == IF a >= b THEN a ELSE b
Min(a, b) == IF a <= b THEN a ELSE b

\* newIndex of navigateRecord
NewIndex(index, length, direction) ==
    IF direction = "prev" THEN Max(0, index - 1) ELSE Min(length - 1, index + 1)

\* Previous is disabled at index 0, Next at index length - 1
\* of the render the buttons belong to: the current one, or for the
\* buttons of the exiting panel the kept one
navigateRecord(direction) ==
    /\ Mounted
    /\ PanelShown \/ kept.panel # <<>>
    /\ LET c == IF PanelShown THEN Closure ELSE kept.panel[1]
       IN  /\ direction = "prev" => c.selectedIndex[1] # 0
           /\ direction = "next" => c.selectedIndex[1] # Len(c.filteredRows) - 1
           /\ selectedIndex' = <<NewIndex(c.selectedIndex[1],
                                          Len(c.filteredRows), direction)>>
    /\ pendingChanges' = EmptyMap
    /\ stagedFor' = <<>>
    /\ lastOp' = IF PanelShown THEN "navigateRecord"
                 ELSE "navigateRecord (exiting panel)"
    /\ UNCHANGED <<data, searchQuery, isPanelOpen, sortConfig, visibleColumns,
                   columnOrder, columnFilters, filteredRows, inflight>>

\* a discard that also drops the selection, as closing the panel's record
\* would
discardChangesDropsSelection ==
    /\ Mounted
    /\ SaveRendered \/ kept.buttons # <<>>
    /\ pendingChanges' = EmptyMap
    /\ selectedIndex' = <<>>
    /\ stagedFor' = <<>>
    /\ lastOp' = IF SaveRendered THEN "discardChanges"
                 ELSE IF lastOp = "discardChanges" THEN "discardChanges again"
                 ELSE "discardChanges (exiting button)"
    /\ UNCHANGED <<data, searchQuery, isPanelOpen, sortConfig,
                   visibleColumns, columnOrder, columnFilters, filteredRows,
                   inflight>>

\* Discard and Save are rendered while the buffer has keys; the exiting
\* Discard button can still be clicked.  The handler reads nothing.
discardChanges ==
    /\ Mounted
    /\ SaveRendered \/ kept.buttons # <<>>
    /\ pendingChanges' = EmptyMap
    /\ stagedFor' = <<>>
    /\ lastOp' = IF SaveRendered THEN "discardChanges"
                 ELSE IF lastOp = "discardChanges" THEN "discardChanges again"
                 ELSE "discardChanges (exiting button)"
    /\ UNCHANGED <<data, searchQuery, selectedIndex, isPanelOpen, sortConfig,
                   visibleColumns, columnOrder, columnFilters, filteredRows,
                   inflight>>

\* the textarea of a rendered field commits its text on blur / Enter, and
\* so does the textarea that the exiting panel still shows; the update is
\* functional
handleFieldUpdate(header, value) ==
    /\ Mounted
    /\ \/ PanelShown /\ header \in Range(RenderedColumns)
       \/ ~PanelShown /\ kept.editing = <<header>>
    /\ pendingChanges' = Spread(pendingChanges, header :> Str(value))
    /\ stagedFor' = IF stagedFor = <<>>
                    THEN <<IndexOf(data[1].rows, At(filteredRows, selectedIndex[1]))>>
                    ELSE stagedFor
    /\ lastOp' = IF PanelShown THEN "handleFieldUpdate"
                 ELSE "handleFieldUpdate (exiting panel)"
    /\ UNCHANGED <<data, searchQuery, selectedIndex, isPanelOpen, sortConfig,
                   visibleColumns, columnOrder, columnFilters, filteredRows,
                   inflight>>

\* a commit that forgets to spread the original row
PatchRowDropsFields(row, patch) == [oid |-> row.oid, cells |-> patch]

\* updatedRows[originalIndex] = { ...updatedRows[originalIndex], ...pendingChanges }
PatchRow(row, patch) == [oid |-> row.oid, cells |-> Spread(row.cells, patch)]

\* a commit that writes one staged field only and still empties the buffer
CommitPartial(d, index, view, pending) ==
    IF index = <<>> \/ d = <<>>
    THEN [data |-> d, pendingChanges |-> pending, applied |-> FALSE]
    ELSE LET targetRow == At(view, index[1])
             originalIndex == IndexOf(d[1].rows, targetRow)
             one == CHOOSE c \in DOMAIN pending :
                        \A e \in DOMAIN pending : c[1] <= e[1]
         IN  IF originalIndex # -1
             THEN [data |-> << [d[1] EXCEPT !.rows[originalIndex + 1] =
                                    [oid |-> @.oid,
                                     cells |-> Spread(@.cells, one :> pending[one])]] >>,
                   pendingChanges |-> EmptyMap,
                   applied |-> TRUE]
             ELSE [data |-> d, pendingChanges |-> pending, applied |-> FALSE]

\* saveChanges as a function of what it reads: the dataset and buffer it
\* leaves, and whether the patch was applied
Commit(d, index, view, pending) ==
    IF index = <<>> \/ d = <<>>
    THEN [data |-> d, pendingChanges |-> pending, applied |-> FALSE]
    ELSE LET targetRow == At(view, index[1])
             originalIndex == IndexOf(d[1].rows, targetRow)
         IN  IF originalIndex # -1
             THEN [data |-> << [d[1] EXCEPT !.rows[originalIndex + 1] =
                                    PatchRow(@, pending)] >>,
                   pendingChanges |-> EmptyMap,
                   applied |-> TRUE]
             ELSE [data |-> d, pendingChanges |-> pending, applied |-> FALSE]

\* The Save button's handler reads data, selectedIndex, filteredRows and
\* pendingChanges of the render it belongs to: the current one, or for the
\* exiting button the kept one, whose buffer is the one that was just
\* discarded, committed or left behind.
saveChanges ==
    /\ Mounted
    /\ SaveRendered \/ kept.buttons # <<>>
    /\ LET c == IF SaveRendered THEN Closure ELSE kept.buttons[1]
           r == Commit(c.data, c.selectedIndex, c.filteredRows, c.pendingChanges)
       IN  /\ data' = IF r.applied THEN r.data ELSE data
           /\ pendingChanges' = IF r.applied THEN EmptyMap ELSE pendingChanges
           /\ stagedFor' = IF r.applied THEN <<>> ELSE stagedFor
           /\ filteredRows' = IF r.applied
                              THEN Pipeline(data', searchQuery, columnFilters, sortConfig)
                              ELSE filteredRows
    /\ lastOp' = IF SaveRendered THEN "saveChanges"
                 ELSE "saveChanges (exiting button)"
    /\ UNCHANGED <<searchQuery, selectedIndex, isPanelOpen, sortConfig,
                   visibleColumns, columnOrder, columnFilters, inflight>>

\* the X button of the panel, also that of the exiting panel; the handler
\* reads nothing
closePanel ==
    /\ Mounted
    /\ PanelShown \/ kept.panel # <<>>
    /\ isPanelOpen' = FALSE
    /\ pendingChanges' = EmptyMap
    /\ stagedFor' = <<>>
    /\ lastOp' = IF PanelShown THEN "closePanel"
                 ELSE "closePanel (exiting panel)"
    /\ UNCHANGED <<data, searchQuery, selectedIndex, sortConfig, visibleColumns,
                   columnOrder, columnFilters, filteredRows, inflight>>

\* the backdrop behind the panel: setIsPanelOpen(false) and nothing else
clickBackdrop ==
    /\ Mounted
    /\ PanelShown \/ kept.panel # <<>>
    /\ isPanelOpen' = FALSE
    /\ lastOp' = IF PanelShown THEN "clickBackdrop"
                 ELSE "clickBackdrop (exiting backdrop)"
    /\ UNCHANGED <<data, searchQuery, selectedIndex, sortConfig, visibleColumns,
                   columnOrder, columnFilters, pendingChanges, filteredRows,
                   inflight, stagedFor>>

(***************************************************************************)
(* Column manager                                                          *)
(***************************************************************************)
\* next = new Set(visibleColumns); delete unless last, or add
NextVisible(visible, header) ==
    IF header \in visible
    THEN (IF Cardinality(visible) > 1 THEN visible \ {header} ELSE visible)
    ELSE visible \cup {header}

\* an item of the open column menu, which is therefore not exiting
toggleColumn(header) ==
    /\ MainScreen
    /\ header \in Range(columnOrder)
    /\ visibleColumns' = NextVisible(visibleColumns, header)
    /\ lastOp' = "toggleColumn"
    /\ UNCHANGED <<data, searchQuery, selectedIndex, isPanelOpen, sortConfig,
                   columnOrder, columnFilters, pendingChanges, filteredRows,
                   inflight, stagedFor>>
    /\ RerenderWith(<<>>, kept.filter, kept.modal)

\* the Columns button or the menu's backdrop closes the column menu: the
\* menu's items keep the columnOrder and the toggleColumn of this render
closeColumnMenu ==
    /\ MainScreen
    /\ lastOp' = "closeColumnMenu"
    /\ UNCHANGED <<data, searchQuery, selectedIndex, isPanelOpen, sortConfig,
                   visibleColumns, columnOrder, columnFilters, pendingChanges,
                   filteredRows, inflight, stagedFor>>
    /\ RerenderWith(<< [visibleColumns |-> visibleColumns,
                        columnOrder |-> columnOrder] >>,
                    kept.filter, kept.modal)

\* an item of the exiting column menu: toggleColumn of the menu's last
\* render, which copies that render's visibleColumns
toggleColumnExiting(header) ==
    /\ Mounted
    /\ kept.menu # <<>>
    /\ header \in Range(kept.menu[1].columnOrder)
    /\ visibleColumns' = NextVisible(kept.menu[1].visibleColumns, header)
    /\ lastOp' = "toggleColumn (exiting menu)"
    /\ UNCHANGED <<data, searchQuery, selectedIndex, isPanelOpen, sortConfig,
                   columnOrder, columnFilters, pendingChanges, filteredRows,
                   inflight, stagedFor>>

\* String.prototype.trim on the space character
RECURSIVE TrimStart(_)
TrimStart(s) == IF s # <<>> /\ Head(s) = 32 THEN TrimStart(Tail(s)) ELSE s
RECURSIVE TrimEnd(_)
TrimEnd(s) ==
    IF s # <<>> /\ s[Len(s)] = 32 THEN TrimEnd(SubSeq(s, 1, Len(s) - 1)) ELSE s
Trim(s) == TrimEnd(TrimStart(s))

\* a collision test that ignores letter case
IncludesIgnoringCase(headers, name) ==
    \E i \in 1..Len(headers) : ToLowerCase(headers[i]) = ToLowerCase(name)

\* data.headers.includes(trimmedName)
HeadersInclude(headers, name) == name \in Range(headers)

\* { ...data, headers: [...data.headers, trimmedName],
\*   rows: data.rows.map(row => ({ ...row, [trimmedName]: '' })) }
WithColumn(d, trimmedName) ==
    [d EXCEPT !.headers = Append(@, trimmedName),
              !.rows = [i \in 1..Len(@) |-> PatchRow(@[i], trimmedName :> Str(sEmpty))]]

\* addColumn as created by a render whose data is d: the dialog's Add button
\* and Enter key call it with the text of that render's input.  It tests
\* and extends d; the visible set and the display order are updated
\* functionally.  lastOp records the alert of a rejected name.
AddColumnOf(d, name, op) ==
    /\ UNCHANGED <<searchQuery, selectedIndex, isPanelOpen, sortConfig,
                   columnFilters, pendingChanges, inflight>>
    /\ LET trimmedName == Trim(name)
       IN  IF trimmedName = sEmpty
           THEN /\ lastOp' = "addColumn: blank"
                /\ UNCHANGED <<data, visibleColumns, columnOrder, filteredRows,
                               stagedFor>>
           ELSE IF HeadersInclude(d[1].headers, trimmedName)
           THEN /\ lastOp' = "addColumn: alert('Column already exists')"
                /\ UNCHANGED <<data, visibleColumns, columnOrder, filteredRows,
                               stagedFor>>
           ELSE /\ lastOp' = op
                /\ data' = << WithColumn(d[1], trimmedName) >>
                /\ visibleColumns' = visibleColumns \cup {trimmedName}
                /\ columnOrder' = Append(columnOrder, trimmedName)
                /\ filteredRows' = Pipeline(data', searchQuery, columnFilters, sortConfig)
                /\ stagedFor' = IF d = data \/ stagedFor = <<>> THEN stagedFor
                                ELSE <<-1>>

\* the open dialog: after a blank or rejected name it stays open, after a
\* success setIsAddingColumn(false) makes it exit with this render's data
\* and text
addColumn(name) ==
    /\ MainScreen
    /\ AddColumnOf(data, name, "addColumn")
    /\ RerenderWith(kept.menu, kept.filter,
                    IF Trim(name) = sEmpty
                       \/ HeadersInclude(data[1].headers, Trim(name))
                    THEN <<>>
                    ELSE << [data |-> data, newColumnName |-> name] >>)

\* Cancel or the dialog's backdrop: setIsAddingColumn(false) with name in
\* the input
closeAddColumn(name) ==
    /\ MainScreen
    /\ lastOp' = "closeAddColumn"
    /\ UNCHANGED <<data, searchQuery, selectedIndex, isPanelOpen, sortConfig,
                   visibleColumns, columnOrder, columnFilters, pendingChanges,
                   filteredRows, inflight, stagedFor>>
    /\ RerenderWith(kept.menu, kept.filter,
                    << [data |-> data, newColumnName |-> name] >>)

\* the Add button or the Enter key of the exiting dialog
addColumnExiting ==
    /\ Mounted
    /\ kept.modal # <<>>
    /\ AddColumnOf(kept.modal[1].data, kept.modal[1].newColumnName,
                   "addColumn (exiting dialog)")

\* Array.prototype.indexOf on an array of strings
IndexOfName(arr, name) ==
    IF name \notin Range(arr) THEN -1
    ELSE (CHOOSE i \in 1..Len(arr) :
              arr[i] = name /\ \A j \in 1..(i - 1) : arr[j] # name) - 1

\* arr.splice(start, 1): a negative start counts from the end
SpliceRemove(arr, start) ==
    LET from == IF start < 0 THEN Max(Len(arr) + start, 0) ELSE Min(start, Len(arr))
    IN  IF from >= Len(arr) THEN arr
        ELSE SubSeq(arr, 1, from) \o SubSeq(arr, from + 2, Len(arr))

\* arr.splice(start, 0, item)
SpliceInsert(arr, start, item) ==
    LET from == IF start < 0 THEN Max(Len(arr) + start, 0) ELSE Min(start, Len(arr))
    IN  SubSeq(arr, 1, from) \o <<item>> \o SubSeq(arr, from + 1, Len(arr))

MovedOrder(order, draggedHeader, targetHeader) ==
    LET oldIndex == IndexOfName(order, draggedHeader)
        newIndex == IndexOfName(order, targetHeader)
    IN  SpliceInsert(SpliceRemove(order, oldIndex), newIndex, draggedHeader)

\* what may be dropped on a header: a dragged header, or any other text
DragTexts == Range(columnOrder) \cup {sx}

\* onDrop of a rendered header: moveColumn unless the text is that header
moveColumn(draggedHeader, targetHeader) ==
    /\ MainScreen
    /\ targetHeader \in Range(RenderedColumns)
    /\ draggedHeader \in DragTexts
    /\ draggedHeader # targetHeader
    /\ columnOrder' = MovedOrder(columnOrder, draggedHeader, targetHeader)
    /\ lastOp' = "moveColumn"
    /\ UNCHANGED <<data, searchQuery, selectedIndex, isPanelOpen, sortConfig,
                   visibleColumns, columnFilters, pendingChanges, filteredRows,
                   inflight, stagedFor>>

(***************************************************************************)
(* Export and remote write                                                 *)
(***************************************************************************)
sComma == <<44>>
sNewline == <<13, 10>>

RECURSIVE Join(_, _)
Join(texts, separator) ==
    IF texts = <<>> THEN sEmpty
    ELSE IF Len(texts) = 1 THEN texts[1]
    ELSE texts[1] \o separator \o Join(Tail(texts), separator)

\* str.replace(quoteCharRegex, '""')
RECURSIVE EscapeQuotes(_)
EscapeQuotes(s) ==
    IF s = <<>> THEN <<>>
    ELSE (IF Head(s) = 34 THEN <<34, 34>> ELSE <<Head(s)>>) \o EscapeQuotes(Tail(s))

\* Papa.unparse's safe(): null and undefined give the empty text; a text
\* holding a line break, a quote, a byte order mark or the delimiter, or
\* starting or ending with a space, is quoted
Safe(v) ==
    IF v.t \in {"null", "undefined"} THEN sEmpty
    ELSE LET text == ToStr(v)
             needsQuotes ==
                 \/ \E i \in 1..Len(text) : text[i] \in {13, 10, 34, 65279, 44}
                 \/ text # <<>> /\ (text[1] = 32 \/ text[Len(text)] = 32)
         IN  IF needsQuotes THEN <<34>> \o EscapeQuotes(text) \o <<34>>
             ELSE EscapeQuotes(text)

\* Papa.unparse(rows, { columns }): an empty array is serialized without
\* fields, so no header line is written for it
Unparse(rows, columns) ==
    IF rows = <<>> THEN sEmpty
    ELSE Join(<< Join([j \in 1..Len(columns) |-> Safe(Str(columns[j]))], sComma) >>
              \o [i \in 1..Len(rows) |->
                    Join([j \in 1..Len(columns) |-> Safe(Get(rows[i], columns[j]))],
                         sComma)],
              sNewline)

\* [columnOrder, ...data.rows.map(row => columnOrder.map(h => row[h] ?? ''))]
SyncValues(rows, columns) ==
    << [j \in 1..Len(columns) |-> Str(columns[j])] >>
    \o [i \in 1..Len(rows) |->
          [j \in 1..Len(columns) |->
              LET v == Get(rows[i], columns[j])
              IN  IF v.t \in {"null", "undefined"} THEN Str(sEmpty) ELSE v]]

\* the text handed to the download link
DownloadedCsv == Unparse(data[1].rows, columnOrder)

\* the body of the PUT request
SentValues == SyncValues(data[1].rows, columnOrder)

downloadCSV ==
    /\ MainScreen
    /\ lastOp' = "downloadCSV"
    /\ UNCHANGED <<data, searchQuery, selectedIndex, isPanelOpen, sortConfig,
                   visibleColumns, columnOrder, columnFilters, pendingChanges,
                   filteredRows, inflight, stagedFor>>

\* The Sync button is rendered for a dataset with a fileId and disabled
\* while isSyncing.  The handler is asynchronous: the click starts the
\* token request and returns to the event loop; values are built from data
\* and columnOrder of the render in which the button was clicked.
syncToDrive ==
    /\ MainScreen
    /\ data[1].fileId # <<>>
    /\ syncing = <<>>
    /\ syncing' = << [phase |-> "requested", values |-> SentValues,
                      fileId |-> data[1].fileId] >>
    /\ lastOp' = "syncToDrive"
    /\ UNCHANGED <<data, searchQuery, selectedIndex, isPanelOpen, sortConfig,
                   visibleColumns, columnOrder, columnFilters, pendingChanges,
                   filteredRows, inflight, stagedFor>>

\* token and metadata have arrived: the PUT goes out with the values of
\* the click
syncToDrivePut ==
    /\ syncing # <<>>
    /\ syncing[1].phase = "requested"
    /\ syncing' = << [syncing[1] EXCEPT !.phase = "put"] >>
    /\ lastOp' = "syncToDrive: PUT"
    /\ UNCHANGED <<data, searchQuery, selectedIndex, isPanelOpen, sortConfig,
                   visibleColumns, columnOrder, columnFilters, pendingChanges,
                   filteredRows, inflight, stagedFor>>

\* the token request, the metadata request or the PUT fails, or the PUT
\* succeeds; besides isSyncing the handler writes no state and ends in one
\* of two alerts
syncToDriveSettled(outcome) ==
    /\ syncing # <<>>
    /\ outcome \in {"synced", "failed"}
    /\ outcome = "synced" => syncing[1].phase = "put"
    /\ syncing' = <<>>
    /\ lastOp' = IF outcome = "synced"
                 THEN "syncToDrive: alert('Successfully synced')"
                 ELSE "syncToDrive: alert('Failed to sync')"
    /\ UNCHANGED <<data, searchQuery, selectedIndex, isPanelOpen, sortConfig,
                   visibleColumns, columnOrder, columnFilters, pendingChanges,
                   filteredRows, inflight, stagedFor>>

(***************************************************************************)
(* Specifications                                                          *)
(***************************************************************************)
Columns == {cA, cB, cC}

\* every event counts against the session's budget
Tick == steps < MaxSteps /\ steps' = steps + 1

\* An exit animation ends, by time: the exiting panel leaves with all it
\* contains; Discard and Save that began to exit before the panel did (their
\* render is not the panel's last one) can leave on their own, and so can
\* the column menu and the Add Column dialog.
exitComplete(part) ==
    /\ part \in {"panel", "buttons", "menu", "modal"}
    /\ part = "panel" =>
           /\ kept.panel # <<>>
           /\ kept' = [kept EXCEPT !.panel = <<>>, !.editing = <<>>,
                                   !.buttons = <<>>]
    /\ part = "buttons" =>
           /\ kept.buttons # <<>>
           /\ kept.buttons # kept.panel
           /\ kept' = [kept EXCEPT !.buttons = <<>>]
    /\ part = "menu" => kept.menu # <<>> /\ kept' = [kept EXCEPT !.menu = <<>>]
    /\ part = "modal" => kept.modal # <<>> /\ kept' = [kept EXCEPT !.modal = <<>>]
    /\ lastOp' = "exitComplete"
    /\ UNCHANGED <<data, searchQuery, selectedIndex, isPanelOpen, sortConfig,
                   visibleColumns, columnOrder, columnFilters, pendingChanges,
                   filteredRows, inflight, stagedFor, steps, syncing>>

\* the exit animation of one column's filter dropdown ends
filterExitComplete(header) ==
    /\ header \in DOMAIN kept.filter
    /\ kept' = [kept EXCEPT !.filter = Without(@, header)]
    /\ lastOp' = "exitComplete"
    /\ UNCHANGED <<data, searchQuery, selectedIndex, isPanelOpen, sortConfig,
                   visibleColumns, columnOrder, columnFilters, pendingChanges,
                   filteredRows, inflight, stagedFor, steps, syncing>>

\* an event of a handler that states itself what is exiting after it
Counted == Tick /\ UNCHANGED syncing
Uncounted == UNCHANGED <<steps, syncing>>

\* an event of a handler other than syncToDrive
Event == Tick /\ Rerender /\ UNCHANGED syncing
Handled == UNCHANGED steps /\ Rerender /\ UNCHANGED syncing

Next ==
    \/ \E src \in Sources : HandleFileUpload(src) /\ Event
    \/ \E src \in Sources : FileUploadComplete(src) /\ Event
    \/ \E src \in Sources : FetchGoogleSheet(src) /\ Event
    \/ \E src \in Sources : FetchGoogleSheetComplete(src) /\ Event
    \/ resetApp /\ Event
    \/ \E q \in Queries : SetSearchQuery(q) /\ Event
    \/ \E c \in Columns : toggleSort(c) /\ Event
    \/ \E c \in Columns : \E v \in UniqueValueSet(c) :
           toggleColumnFilterValue(c, v) /\ Counted
    \/ \E c \in Columns : clearColumnFilter(c) /\ Counted
    \/ \E c \in Columns : \E o \in OpenedChoices(c) :
           closeFilterDropdown(c, o) /\ Counted
    \/ \E c \in DOMAIN kept.filter : \E v \in kept.filter[c].values :
           toggleColumnFilterValueExiting(c, v) /\ Event
    \/ \E c \in DOMAIN kept.filter : clearColumnFilterExiting(c) /\ Event
    \/ \E i \in 0..(Len(filteredRows) - 1) : handleRowClick(i) /\ Event
    \/ \E d \in {"prev", "next"} : navigateRecord(d) /\ Event
    \/ discardChanges /\ Event
    \/ \E c \in Columns : \E v \in EditValues : handleFieldUpdate(c, v) /\ Event
    \/ saveChanges /\ Event
    \/ closePanel /\ Event
    \/ clickBackdrop /\ Event
    \/ \E c \in Columns : toggleColumn(c) /\ Counted
    \/ closeColumnMenu /\ Counted
    \/ \E c \in Columns : toggleColumnExiting(c) /\ Event
    \/ \E n \in NewColumnNames : addColumn(n) /\ Counted
    \/ \E n \in NewColumnNames : closeAddColumn(n) /\ Counted
    \/ addColumnExiting /\ Event
    \/ \E c \in DragTexts : \E t \in Columns : moveColumn(c, t) /\ Event
    \/ downloadCSV /\ Event
    \/ syncToDrive /\ Tick /\ Rerender
    \/ syncToDrivePut /\ Tick /\ Rerender
    \/ \E o \in {"synced", "failed"} :
           syncToDriveSettled(o) /\ Tick /\ Rerender
    \/ \E p \in {"panel", "buttons", "menu", "modal"} : exitComplete(p)
    \/ \E c \in DOMAIN kept.filter : filterExitComplete(c)

Spec == Init /\ [][Next]_vars

\* the state right after the import of src completed in a fresh session
Loaded(src) ==
    /\ data = << [headers |-> src.headers, rows |-> NewRows(src.cells),
                  fileName |-> src.fileName, fileId |-> src.fileId] >>
    /\ visibleColumns = Range(src.headers)
    /\ columnOrder = src.headers
    /\ searchQuery = sEmpty
    /\ selectedIndex = <<>>
    /\ isPanelOpen = FALSE
    /\ sortConfig = [key |-> <<>>, direction |-> "asc"]
    /\ columnFilters = EmptyMap
    /\ pendingChanges = EmptyMap
    /\ filteredRows = Pipeline(data, searchQuery, columnFilters, sortConfig)
    /\ inflight = {}
    /\ stagedFor = <<>>
    /\ lastOp = "importComplete"
    /\ steps = 0
    /\ kept = NoKept
    /\ syncing = <<>>

\* The handlers that feed the view pipeline (search box, header click,
\* filter dropdown), run on a loaded dataset.  The dataset does not change
\* here, so a dropdown that is animating out offers the values an open one
\* offers and its handlers, which read the current filters, act as those of
\* an open one; the steps of an exiting dropdown are part of Next.
ViewInit == \E src \in ViewSources : Loaded(src)

ViewNext ==
    \/ \E q \in ViewQueries : SetSearchQuery(q) /\ Handled
    \/ \E c \in ViewColumns : toggleSort(c) /\ Handled
    \/ \E c \in ViewColumns : \E v \in UniqueValueSet(c) :
           toggleColumnFilterValue(c, v) /\ Uncounted
    \/ \E c \in ViewColumns : clearColumnFilter(c) /\ Uncounted

ViewSpec == ViewInit /\ [][ViewNext]_vars

\* The column manager's handlers (column menu, Add Column dialog, header
\* drop), run on a loaded dataset.
ColumnInit == Loaded(FileTwins)

\* an event on a loaded dataset
AfterLoad == steps < MaxSteps - 1 /\ steps' = steps + 1 /\ UNCHANGED syncing

ColumnNext ==
    \/ \E c \in AllColumns : toggleColumn(c) /\ AfterLoad
    \/ closeColumnMenu /\ AfterLoad
    \/ \E c \in AllColumns : toggleColumnExiting(c) /\ AfterLoad /\ Rerender
    \/ \E n \in TypedColumnNames : addColumn(n) /\ AfterLoad
    \/ \E n \in TypedColumnNames : closeAddColumn(n) /\ AfterLoad
    \/ addColumnExiting /\ AfterLoad /\ Rerender
    \/ \E c \in DragTexts : \E t \in AllColumns :
           moveColumn(c, t) /\ AfterLoad /\ Rerender
    \/ \E p \in {"menu", "modal"} : exitComplete(p)

ColumnSpec == ColumnInit /\ [][ColumnNext]_vars

\* Imports, reset, export and remote write, with a record opened, edited
\* and stepped through in between, over sources that include empty and
\* failing ones.
ExchangeNext ==
    \/ \E src \in ExchangeSources : HandleFileUpload(src) /\ Handled
    \/ \E src \in ExchangeSources : FileUploadComplete(src) /\ Handled
    \/ \E src \in ExchangeSources : FetchGoogleSheet(src) /\ Handled
    \/ \E src \in ExchangeSources : FetchGoogleSheetComplete(src) /\ Handled
    \/ resetApp /\ Handled
    \/ \E i \in 0..(Len(filteredRows) - 1) : handleRowClick(i) /\ Handled
    \/ \E c \in Columns : \E v \in EditValues :
           handleFieldUpdate(c, v) /\ Handled
    \/ \E d \in {"prev", "next"} : navigateRecord(d) /\ Handled
    \/ downloadCSV /\ Handled
    \/ \E p \in {"panel", "buttons"} : exitComplete(p)
    \/ syncToDrive /\ UNCHANGED steps /\ Rerender
    \/ syncToDrivePut /\ UNCHANGED steps /\ Rerender
    \/ \E o \in {"synced", "failed"} :
           syncToDriveSettled(o) /\ UNCHANGED steps /\ Rerender

ExchangeSpec == Init /\ [][ExchangeNext]_vars

\* The record editor's handlers (row click, Previous/Next, field edit,
\* Discard, Save, close) together with the search box, the header click
\* and the Add Column dialog (open, closing and animating out), run on a
\* loaded dataset.  The filter dropdown and the column menu are steps of
\* Next.
EditorInit == \E src \in Sources : Loaded(src)

\* the events of the record editor on a loaded dataset
Edited == AfterLoad /\ Rerender

EditorNext ==
    \/ \E i \in 0..(Len(filteredRows) - 1) : handleRowClick(i) /\ Edited
    \/ \E d \in {"prev", "next"} : navigateRecord(d) /\ Edited
    \/ \E c \in Columns : \E v \in EditValues :
           handleFieldUpdate(c, v) /\ Edited
    \/ discardChanges /\ Edited
    \/ saveChanges /\ Edited
    \/ closePanel /\ Edited
    \/ clickBackdrop /\ Edited
    \/ \E q \in Queries : SetSearchQuery(q) /\ Edited
    \/ \E c \in Columns : toggleSort(c) /\ Edited
    \/ \E n \in NewColumnNames : addColumn(n) /\ AfterLoad
    \/ \E n \in NewColumnNames : closeAddColumn(n) /\ AfterLoad
    \/ addColumnExiting /\ Edited
    \/ \E p \in {"panel", "buttons", "modal"} : exitComplete(p)

EditorSpec == EditorInit /\ [][EditorNext]_vars

(***************************************************************************)
(* Properties                                                              *)
(***************************************************************************)
Rows == data[1].rows
RowsAfter == data'[1].rows

\* the row object shown at the selected view index: <<>> or <<row>>
ShownRow == IF selectedIndex = <<>> THEN <<>> ELSE At(filteredRows, selectedIndex[1])

\* headers, file name, file id and row count are kept
SameShape ==
    /\ data' # <<>>
    /\ data'[1].headers = data[1].headers
    /\ data'[1].fileName = data[1].fileName
    /\ data'[1].fileId = data[1].fileId
    /\ Len(RowsAfter) = Len(Rows)

\* cells holding the text typed by the user
EditedCells ==
    IF data = <<>> THEN {}
    ELSE {pc \in (1..Len(Rows)) \X Columns : Get(Rows[pc[1]], pc[2]) = Str(sx)}

\* C1: committing a buffer {col: v} for the row shown at the selected view
\* index yields the same dataset except that this canonical row has
\* col = v: every other row, every other field of the row, the headers,
\* the file name and the row count are unchanged.
C1_CommitCorrectness ==
    [][ (saveChanges /\ SaveRendered /\ ShownRow # <<>>
           /\ Cardinality(DOMAIN pendingChanges) = 1)
        => LET p == CHOOSE q \in 1..Len(Rows) : Rows[q] = ShownRow[1]
               col == CHOOSE c \in DOMAIN pendingChanges : TRUE
           IN  /\ SameShape
               /\ \A q \in 1..Len(Rows) :
                     /\ DOMAIN RowsAfter[q].cells =
                           (DOMAIN Rows[q].cells) \cup (IF q = p THEN {col} ELSE {})
                     /\ \A c \in DOMAIN RowsAfter[q].cells :
                           RowsAfter[q].cells[c] =
                              IF q = p /\ c = col THEN pendingChanges[col]
                              ELSE Rows[q].cells[c]
      ]_vars

\* a single-field commit has just run on a searched and sorted view
C1_Witness ==
    /\ lastOp = "saveChanges"
    /\ DOMAIN pendingChanges = {}
    /\ sortConfig.key # <<>>
    /\ searchQuery # sEmpty
    /\ Cardinality(EditedCells) = 1

\* C2: when the row shown at the selected view index has twins (other
\* canonical rows with identical content), committing an edit staged in the
\* open panel changes exactly the shown row object and leaves every other
\* row, the twins included, as it was.
C2_CommitByIdentity ==
    [][ (saveChanges /\ SaveRendered /\ ShownRow # <<>>
           /\ \E q \in 1..Len(Rows) :
                 Rows[q] # ShownRow[1] /\ Rows[q].cells = ShownRow[1].cells)
        => /\ SameShape
           /\ \A q \in 1..Len(Rows) :
                 RowsAfter[q].cells =
                    IF Rows[q] = ShownRow[1]
                    THEN Spread(Rows[q].cells, pendingChanges)
                    ELSE Rows[q].cells
      ]_vars

\* after addColumn replaced every row object, a commit went to the second
\* twin of twins.csv and left the first twin alone
C2_Witness ==
    /\ lastOp = "saveChanges"
    /\ DOMAIN pendingChanges = {}
    /\ data # <<>> /\ data[1].fileName = "twins.csv"
    /\ cC \in Range(data[1].headers)
    /\ Rows[1].cells = Spread(FileTwins.cells[1], cC :> Str(sEmpty))
    /\ Get(Rows[2], cA) = Str(sx)
    /\ Get(Rows[2], cB) = Get(Rows[1], cB)

\* C3: saveChanges either merges the whole buffer into exactly one
\* canonical row and empties the buffer, or changes neither the dataset
\* nor the buffer; the second case is the one where no record is selected,
\* no dataset is loaded or the shown row cannot be resolved.
C3_CommitAllOrNothing ==
    [][ saveChanges
        => IF data # <<>> /\ ShownRow # <<>>
           THEN /\ SameShape
                /\ pendingChanges' = EmptyMap
                /\ \E p \in 1..Len(Rows) : \A q \in 1..Len(Rows) :
                       RowsAfter[q].cells =
                          IF q = p THEN Spread(Rows[q].cells, pendingChanges)
                          ELSE Rows[q].cells
           ELSE data' = data /\ pendingChanges' = pendingChanges
      ]_vars

\* saveChanges has just run on a selection that resolves to no row: the
\* buffer is still there
C3_Witness ==
    /\ lastOp = "saveChanges"
    /\ DOMAIN pendingChanges # {}
    /\ ShownRow = <<>>

\* C4: the staged edits are written only into the row that was open when
\* they were staged.
C4_EditsStayWithTheirRow ==
    [][ (saveChanges /\ Commit(data, selectedIndex, filteredRows, pendingChanges).applied)
        => stagedFor = <<IndexOf(Rows, ShownRow)>>
      ]_vars

\* C5: the buffer is non-empty only while a record is selected and its
\* panel is open.
C5_BufferOnlyWhileOpen ==
    DOMAIN pendingChanges # {} => (isPanelOpen /\ selectedIndex # <<>>)

\* C6: no navigation step both moves the selection and empties a non-empty
\* buffer (the handler offers no commit-or-discard decision).
C6_NavigateKeepsEdits ==
    [][ ((\E d \in {"prev", "next"} : navigateRecord(d)) /\ DOMAIN pendingChanges # {})
        => ~(selectedIndex' # selectedIndex /\ DOMAIN pendingChanges' = {})
      ]_vars

\* C7: on either close path the panel does not close while the buffer is
\* non-empty, and the staged edits are not dropped.
C7_CloseKeepsEdits ==
    [][ ((closePanel \/ clickBackdrop) /\ DOMAIN pendingChanges # {})
        => (isPanelOpen' /\ pendingChanges' = pendingChanges)
      ]_vars

\* C8: navigateRecord moves by one position, clamped at the ends, and the
\* index it leaves is a valid index of the view.
C8_NavigateClamped ==
    [][ \A d \in {"prev", "next"} :
          navigateRecord(d)
          => /\ selectedIndex' =
                   << IF d = "prev" THEN Max(0, selectedIndex[1] - 1)
                      ELSE Min(Len(filteredRows) - 1, selectedIndex[1] + 1) >>
             /\ selectedIndex'[1] >= 0
             /\ selectedIndex'[1] < Len(filteredRows')
      ]_vars

\* C9: whenever a record is open, selectedIndex is a valid index of the
\* current view, so the panel's read of filteredRows[selectedIndex] is
\* defined.
C9_SelectionInRange ==
    (data # <<>> /\ isPanelOpen /\ selectedIndex # <<>>)
    => (selectedIndex[1] >= 0 /\ selectedIndex[1] < Len(filteredRows))

\* C10: the displayed view is the pipeline's result for the current
\* dataset, search query, column filters and sort spec.
C10_ViewIsPipeline ==
    filteredRows = Pipeline(data, searchQuery, columnFilters, sortConfig)

\* the pipeline's result for the current inputs
View == Pipeline(data, searchQuery, columnFilters, sortConfig)

\* the spec's textual representation: an empty or absent value is the empty
\* string
Text(v) == ToStrOrEmpty(v)

\* C11: a dataset row is in the pipeline output exactly when (the query is
\* empty or some field's text contains the query ignoring case) and, for
\* every column with a non-empty accepted set, the text of the row's value
\* in that column is in the set.
C11_ViewMembership ==
    data # <<>> =>
        \A i \in 1..Len(Rows) :
            (Rows[i] \in Range(View))
            <=> /\ \/ searchQuery = sEmpty
                   \/ \E col \in DOMAIN Rows[i].cells :
                         Includes(ToLowerCase(Text(Rows[i].cells[col])),
                                  ToLowerCase(searchQuery))
                /\ \A col \in DOMAIN columnFilters :
                      columnFilters[col] # {}
                      => Text(Get(Rows[i], col)) \in columnFilters[col]

\* the row count of the pipeline output under another filter state
CountWith(filters) == Len(Pipeline(data, searchQuery, filters, sortConfig))

\* the accepted set of a column (empty: the column is unfiltered)
Accepted(column) ==
    IF column \in DOMAIN columnFilters THEN columnFilters[column] ELSE {}

\* C12 as stated: adding a value to a column's accepted set never increases
\* the row count of the pipeline output, and removing a value never
\* decreases it.
C12_FilterMonotone ==
    data # <<>> =>
        \A c \in ViewColumns : \A v \in UniqueValueSet(c) :
            IF v \notin Accepted(c)
            THEN CountWith(NextFilters(columnFilters, c, v)) <= CountWith(columnFilters)
            ELSE CountWith(NextFilters(columnFilters, c, v)) >= CountWith(columnFilters)

\* C12 amended: a column's accepted set admits rows, so the row count
\* follows the set once it is non-empty.  Adding the first value of a column
\* never increases the count and adding a further value never decreases it;
\* removing a value never increases the count while the set stays non-empty
\* and never decreases it when the set becomes empty.
C12_FilterMonotoneAmended ==
    data # <<>> =>
        \A c \in ViewColumns : \A v \in UniqueValueSet(c) :
            LET before == CountWith(columnFilters)
                after == CountWith(NextFilters(columnFilters, c, v))
            IN  IF v \notin Accepted(c)
                THEN (IF Accepted(c) = {} THEN after <= before ELSE after >= before)
                ELSE (IF Accepted(c) = {v} THEN after >= before ELSE after <= before)

\* both values of column A of twins.csv have been accepted one after the
\* other: the second toggle took the pipeline output from two rows to three
C12_Witness ==
    /\ lastOp = "toggleColumnFilterValue"
    /\ data # <<>> /\ data[1].fileName = "twins.csv"
    /\ columnFilters = (cA :> {sa, sb})
    /\ searchQuery = sEmpty
    /\ Len(View) = 3
    /\ CountWith(cA :> {sa}) = 2

\* C13: two rows of the sorted output whose sort-key values are identical,
\* or have the same text ignoring case, are in canonical order.
C13_SortStable ==
    (data # <<>> /\ sortConfig.key # <<>>) =>
        \A i \in 1..Len(View) : \A j \in (i + 1)..Len(View) :
            LET a == Get(View[i], sortConfig.key[1])
                b == Get(View[j], sortConfig.key[1])
            IN  (a = b \/ ToLowerCase(Text(a)) = ToLowerCase(Text(b)))
                => IndexOf(Rows, <<View[i]>>) < IndexOf(Rows, <<View[j]>>)

Headers == data[1].headers
HeadersAfter == data'[1].headers

\* C14: with a dataset of at least one column loaded, at least one column
\* is visible and the table renders at least one column; toggling the only
\* visible column changes nothing.
C14_VisibilityFloor ==
    [][ /\ (data' # <<>> /\ HeadersAfter # <<>>)
           => (visibleColumns' # {} /\ RenderedColumns' # <<>>)
        /\ \A c \in Columns :
              (toggleColumn(c) /\ visibleColumns = {c})
              => visibleColumns' = visibleColumns
      ]_vars

\* C15: moveColumn leaves the display order unchanged when the moved or
\* the target name is not in it.
C15_MoveBadNameNoOp ==
    [][ \A d \in DragTexts : \A h \in Columns :
          (moveColumn(d, h)
             /\ (d \notin Range(columnOrder) \/ h \notin Range(columnOrder)))
          => columnOrder' = columnOrder
      ]_vars

\* C16: for two distinct names of the display order, moveColumn puts the
\* moved name at the index the target had, keeps the relative order of all
\* other names, and yields a permutation of the previous order.
C16_MoveSemantics ==
    [][ \A d \in DragTexts : \A h \in AllColumns :
          (moveColumn(d, h) /\ d \in Range(columnOrder) /\ h \in Range(columnOrder))
          => /\ Len(columnOrder') = Len(columnOrder)
             /\ Range(columnOrder') = Range(columnOrder)
             /\ \A i \in 1..Len(columnOrder') : \A j \in 1..Len(columnOrder') :
                   i # j => columnOrder'[i] # columnOrder'[j]
             /\ columnOrder'[IndexOfName(columnOrder, h) + 1] = d
             /\ SelectSeq(columnOrder', LAMBDA x : x # d)
                   = SelectSeq(columnOrder, LAMBDA x : x # d)
      ]_vars

\* C17: with a dataset loaded, the visible set is a subset of the headers
\* and the display order is a permutation of the headers; toggleColumn and
\* moveColumn leave the dataset as it is.
C17_DisplayStateConsistent ==
    [][ /\ data' # <<>>
           => /\ visibleColumns' \subseteq Range(HeadersAfter)
              /\ Len(columnOrder') = Len(HeadersAfter)
              /\ Range(columnOrder') = Range(HeadersAfter)
        /\ ((\E c \in Columns : toggleColumn(c))
              \/ (\E d \in DragTexts : \E h \in Columns : moveColumn(d, h)))
           => data' = data
      ]_vars

\* what C18 asks of an addColumn call with the text n
RejectsDuplicate(n) ==
    /\ n \in Range(Headers)
          => /\ lastOp' = "addColumn: alert('Column already exists')"
             /\ data' = data
             /\ visibleColumns' = visibleColumns
             /\ columnOrder' = columnOrder
    /\ (n \notin Range(Headers) /\ IncludesIgnoringCase(Headers, n))
          => /\ HeadersAfter = Append(Headers, n)
             /\ lastOp' # "addColumn: alert('Column already exists')"

\* C18: addColumn with the name of an existing column reports the error and
\* changes neither the dataset nor the visible set nor the display order; a
\* name that differs from an existing one in letter case only is added.
\* Every call counts: from the open dialog and from the exiting one.
C18_AddColumnRejectsDuplicate ==
    [][ /\ \A n \in TypedColumnNames : addColumn(n) => RejectsDuplicate(n)
        /\ addColumnExiting => RejectsDuplicate(kept.modal[1].newColumnName)
      ]_vars

\* the effect of a successful addColumn that appends name
AddColumnEffect(name) ==
    /\ data'[1].fileName = data[1].fileName
    /\ data'[1].fileId = data[1].fileId
    /\ HeadersAfter = Append(Headers, name)
    /\ Len(RowsAfter) = Len(Rows)
    /\ \A i \in 1..Len(Rows) :
          RowsAfter[i].cells = Spread(Rows[i].cells, name :> Str(sEmpty))
    /\ visibleColumns' = visibleColumns \cup {name}
    /\ columnOrder' = Append(columnOrder, name)
    /\ RenderedColumns'[Len(RenderedColumns')] = name

\* C19: for a name that, trimmed, is non-blank and is not a column of the
\* dataset, addColumn appends the trimmed name to the headers, gives every
\* row the field with the empty string, keeps the rows, and appends the
\* name to the visible set and the display order.  Every call counts: from
\* the open dialog and from the exiting one.
C19_AddColumnEffect ==
    [][ /\ \A n \in TypedColumnNames :
              (addColumn(n) /\ Trim(n) # sEmpty /\ Trim(n) \notin Range(Headers))
              => AddColumnEffect(Trim(n))
        /\ (addColumnExiting
              /\ Trim(kept.modal[1].newColumnName) # sEmpty
              /\ Trim(kept.modal[1].newColumnName) \notin Range(Headers))
           => AddColumnEffect(Trim(kept.modal[1].newColumnName))
      ]_vars

\* C20: getUniqueValues(column) is strictly ascending in code-unit order
\* (so without duplicates) and holds exactly the texts of that column over
\* all rows of the dataset, whatever the search query, the column filters
\* and the sort are.
C20_UniqueValuesOfDataset ==
    data # <<>> =>
        \A c \in ViewColumns :
            LET u == getUniqueValues(c)
            IN  /\ Range(u) = {Text(Get(Rows[i], c)) : i \in 1..Len(Rows)}
                /\ \A i \in 1..Len(u) : \A j \in (i + 1)..Len(u) : StrLess(u[i], u[j])

\* a search has removed rows from the view, and a value of column A that no
\* displayed row holds is still offered
C20_Witness ==
    /\ data # <<>>
    /\ searchQuery # sEmpty
    /\ Len(filteredRows) < Len(Rows)
    /\ \E v \in Range(getUniqueValues(cA)) :
          \A i \in 1..Len(filteredRows) : Text(Get(filteredRows[i], cA)) # v
    /\ Len(getUniqueValues(cB)) = 3

\* C21: after any sequence of toggleColumnFilterValue and clearColumnFilter
\* calls no entry of the column-filter mapping holds an empty accepted-value
\* set, and a toggle that removes the last accepted value of a column
\* removes the column's entry.
C21_NoEmptyFilterEntry ==
    [][ /\ \A c \in DOMAIN columnFilters' : columnFilters'[c] # {}
        /\ \A c \in ViewColumns : \A v \in UniqueValueSet(c) :
               (toggleColumnFilterValue(c, v) /\ Accepted(c) = {v})
                   => c \notin DOMAIN columnFilters' ]_vars

\* the last accepted value of the only filtered column was just toggled off
C21_Witness ==
    /\ lastOp = "toggleColumnFilterValue"
    /\ columnFilters = EmptyMap

\* C22: discardChanges empties the buffer and leaves the dataset, the
\* selection and the view unchanged; called a second time in a row it finds
\* the buffer empty and leaves dataset and buffer as the first call left them.
C22_DiscardIdempotent ==
    [][ discardChanges =>
          /\ pendingChanges' = EmptyMap
          /\ data' = data
          /\ selectedIndex' = selectedIndex
          /\ isPanelOpen' = isPanelOpen
          /\ filteredRows' = filteredRows
          /\ lastOp = "discardChanges" => pendingChanges' = pendingChanges ]_vars

\* Discard was clicked twice in a row on the open record of a sorted view
C22_Witness ==
    /\ lastOp = "discardChanges again"
    /\ pendingChanges = EmptyMap
    /\ selectedIndex # <<>>
    /\ isPanelOpen
    /\ sortConfig.key # <<>>

\* C23: an import that resolves after the session was reset, or after
\* another import completed, is ignored: a completion that directly follows
\* resetApp or another completion (so it was started before them) changes
\* neither the dataset nor the column display state, the selection or the
\* buffer; after resetApp the dataset stays empty.
C23_StaleResponseIgnored ==
    [][ (lastOp \in {"resetApp", "importComplete"} /\ lastOp' = "importComplete")
          => /\ data' = data
             /\ visibleColumns' = visibleColumns
             /\ columnOrder' = columnOrder
             /\ selectedIndex' = selectedIndex
             /\ pendingChanges' = pendingChanges ]_vars

\* the sources that are empty or carry an error response
FailedSources == {FileEmpty, BookEmpty, SheetDenied}

\* C24: a failed external operation leaves local state untouched: the
\* completion of an import of an empty source or of an error response, and
\* a failed syncToDrive, change neither the dataset nor the column display
\* state, the selection or the pending buffer.
C24_FailureLeavesStateUntouched ==
    [][ ( \/ \E src \in FailedSources :
                FileUploadComplete(src) \/ FetchGoogleSheetComplete(src)
          \/ syncToDriveSettled("failed") )
          => UNCHANGED <<data, visibleColumns, columnOrder, selectedIndex,
                         pendingChanges>> ]_vars

\* a's value may precede b's in the given direction: numerically when both
\* are numbers, otherwise by lowercased text
InOrder(a, b, direction) ==
    LET lo == IF direction = "asc" THEN a ELSE b
        hi == IF direction = "asc" THEN b ELSE a
    IN  IF lo.t = "number" /\ hi.t = "number"
        THEN lo.n <= hi.n
        ELSE ~StrLess(ToLowerCase(Text(hi)), ToLowerCase(Text(lo)))

\* C25: with a sort column set, every pair of rows a before b of the output
\* view is in order (numerically when both values are numbers, otherwise by
\* lowercased text; reversed for descending); with no sort column the output
\* is in canonical row order.
C25_SortComparison ==
    MainScreen =>
        \A i \in 1..Len(View) : \A j \in (i + 1)..Len(View) :
            IF sortConfig.key = <<>>
            THEN View[i].oid < View[j].oid
            ELSE InOrder(Get(View[i], sortConfig.key[1]),
                         Get(View[j], sortConfig.key[1]), sortConfig.direction)

\* C26: search maps a cell value to the same text as column filters,
\* getUniqueValues and sort do (null and missing values to the empty text):
\* the rows kept by the search step are the rows with a cell whose text
\* contains the query, so a null cell is searched as the empty text.
C26_OneTextEverywhere ==
    (MainScreen /\ searchQuery # sEmpty) =>
        Pipeline(data, searchQuery, EmptyMap, [key |-> <<>>, direction |-> "asc"])
            = SelectSeq(Rows, LAMBDA r :
                  \E col \in DOMAIN r.cells :
                      Includes(ToLowerCase(Text(r.cells[col])),
                               ToLowerCase(searchQuery)))

\* the value of a row in a column, the empty string when absent
ValueOrEmpty(row, column) ==
    IF Get(row, column).t \in {"null", "undefined"} THEN Str(sEmpty)
    ELSE Get(row, column)

\* the table the claim describes: the display column order as header row,
\* then one row per canonical row, in canonical order
WholeDataset ==
    << [j \in 1..Len(columnOrder) |-> Str(columnOrder[j])] >>
    \o [i \in 1..Len(Rows) |->
          [j \in 1..Len(columnOrder) |-> ValueOrEmpty(Rows[i], columnOrder[j])]]

\* C27: the CSV produced by downloadCSV and the 2-D array sent by
\* syncToDrive hold the display column order as header row, followed by one
\* row per row of the canonical dataset in canonical order, each with the
\* row's values in that column order and the empty string for absent values.
C27_ExportWholeDataset ==
    /\ (MainScreen /\ lastOp = "downloadCSV") =>
           DownloadedCsv =
               Join([i \in 1..Len(WholeDataset) |->
                        Join([j \in 1..Len(columnOrder) |-> Safe(WholeDataset[i][j])],
                             sComma)],
                    sNewline)
    /\ (MainScreen /\ lastOp = "syncToDrive: PUT") =>
           syncing[1].values = WholeDataset

\* C28: after a successful commit the row at filteredRows[selectedIndex] is
\* the canonical row that received the edit, whatever the search and sort
\* state.
C28_CommitKeepsOpenRecord ==
    [][ (saveChanges /\ IndexOf(Rows, ShownRow) # -1)
          => At(filteredRows', selectedIndex'[1])
                = << RowsAfter[IndexOf(Rows, ShownRow) + 1] >> ]_vars

\* C29: a session starts from a clean view: when the only import in
\* flight, started on the import screen by the last user action (in a fresh
\* session or after resetApp), installs its dataset, the view is all rows of
\* the new dataset in canonical order, no record is selected and the buffer
\* is empty.
C29_CleanViewAfterReset ==
    [][ ( /\ data = <<>> /\ data' # <<>>
          /\ lastOp \in {"handleFileUpload", "fetchGoogleSheet"}
          /\ Cardinality(inflight) = 1 )
          => /\ filteredRows' = RowsAfter
             /\ selectedIndex' = <<>>
             /\ pendingChanges' = EmptyMap ]_vars

\* C30: toggleSort(column) makes the clicked column the sort column, with
\* direction descending exactly when that column was already the sort
\* column in ascending direction and ascending otherwise; once a sort column
\* is set, no step returns to the unsorted state.
C30_ToggleSortTwoState ==
    [][ /\ \A c \in ViewColumns :
              toggleSort(c) =>
                  /\ sortConfig'.key = <<c>>
                  /\ sortConfig'.direction = "desc"
                         <=> (sortConfig.key = <<c>> /\ sortConfig.direction = "asc")
                  /\ sortConfig'.direction \in {"asc", "desc"}
        /\ sortConfig.key # <<>> => sortConfig'.key # <<>> ]_vars

\* a second click on column A of mixed.xlsx turned the direction to
\* descending and the view was recomputed with it
C30_Witness ==
    /\ lastOp = "toggleSort"
    /\ sortConfig = [key |-> <<cA>>, direction |-> "desc"]
    /\ data # <<>> /\ data[1].fileName = "mixed.xlsx"
    /\ filteredRows = Pipeline(data, searchQuery, columnFilters, sortConfig)

=============================================================================
